---- MODULE Spec2Model ----
(***************************************************************************)
(* Student project upload form (src/app.py): a Streamlit script that       *)
(* validates a form, resolves the folder path Year > Semester > Grade >    *)
(* Section in Google Drive, uploads the PDF, grants read permission and    *)
(* inserts one row into the Supabase table `submissions`.                  *)
(*                                                                         *)
(* Every browser session runs main() in its own script thread, so the      *)
(* sessions interleave at the external calls (files.list, files.create,    *)
(* permissions.create, table.insert); everything between two external      *)
(* calls is local to one session and is part of one step.                  *)
(***************************************************************************)
EXTENDS Integers, Sequences, FiniteSets, TLC

\* ------------------------------------------------------------------ bounds
MaxSubmissions == 2     \* form submissions started in one behaviour
MaxNameLen == 7         \* longest student name the validation runs draw
MaxTitleLen == 5        \* longest project title the validation runs draw

\* ------------------------------------------------------- program constants
MinNameLen == 6                 \* app.py:292
MinTitleLen == 5                \* app.py:295
MaxFileSize == 10485760         \* app.py:301, 10 * 1024 * 1024
TitlePrefixLen == 30            \* app.py:324, project_title[:30]
PathDepth == 4                  \* app.py:145-154, four nested lookups

Sessions == {1, 2}
NoId == <<0, 0>>                \* no object
NoParent == NoId                \* parent_id = None
NoFile == -1                    \* uploaded_file is None

\* Characters of the text inputs: a letter and the space.
Chars == {"a", " "}
Whitespace == {" "}

\* ------------------------------------------------------------ pure helpers
RECURSIVE LStrip(_)
LStrip(s) ==
    IF s # <<>> /\ Head(s) \in Whitespace THEN LStrip(Tail(s)) ELSE s

RECURSIVE RStrip(_)
RStrip(s) ==
    IF s # <<>> /\ s[Len(s)] \in Whitespace
    THEN RStrip(SubSeq(s, 1, Len(s) - 1))
    ELSE s

\* str.strip(): leading and trailing whitespace removed, the interior kept.
Strip(s) == RStrip(LStrip(s))

\* str.replace(" ", "_")
ReplaceSpaces(s) == [i \in 1..Len(s) |-> IF s[i] = " " THEN "_" ELSE s[i]]

Min(a, b) == IF a < b THEN a ELSE b

\* f"{safe_student_name}_{project_title[:30]}.pdf"
FileName(name, title) ==
    ReplaceSpaces(name) \o <<"_">>
        \o SubSeq(title, 1, Min(Len(title), TitlePrefixLen))
        \o <<".", "p", "d", "f">>

\* The four validation messages, in the order main() appends them.
ErrName == "err_name"
ErrTitle == "err_title"
ErrNoFile == "err_no_file"
ErrSize == "err_size"

\* Faulty variant: counts the non-whitespace characters of the name.
NameRuleInk(errs, f) ==
    IF f.name = <<>> \/ Len(SelectSeq(f.name, LAMBDA c : c \notin Whitespace)) < MinNameLen
    THEN Append(errs, ErrName) ELSE errs
\* The four rules: each appends its message when violated.
NameRule(errs, f) ==
    IF f.name = <<>> \/ Len(Strip(f.name)) < MinNameLen
    THEN Append(errs, ErrName) ELSE errs

TitleRule(errs, f) ==
    IF f.title = <<>> \/ Len(Strip(f.title)) < MinTitleLen
    THEN Append(errs, ErrTitle) ELSE errs

FileRule(errs, f) ==
    IF f.file = NoFile THEN Append(errs, ErrNoFile) ELSE errs

SizeRule(errs, f) ==
    IF f.file # NoFile /\ f.file > MaxFileSize
    THEN Append(errs, ErrSize) ELSE errs

\* Faulty variant: stops at the first violated rule.
ValidateFirstOnly(f) ==
    LET all == SizeRule(FileRule(TitleRule(NameRule(<<>>, f), f), f), f)
    IN IF all = <<>> THEN <<>> ELSE <<all[1]>>
\* errors = [] followed by the four independent ifs.
Validate(f) == SizeRule(FileRule(TitleRule(NameRule(<<>>, f), f), f), f)

\* ------------------------------------------------------------------- state
VARIABLES
    config,         \* the row of system_config: [current_year, current_semester]
    folders,        \* Drive folders: records [id, name, parent]
    files,          \* Drive files: records [id, name, parent, public]
    submissions,    \* rows of the table `submissions`, in insertion order
    started,        \* form submissions so far; also the reading of the clock
    ord,            \* per session: the ordinal of its current submission
    pc,             \* per session: where its script run stands
    form,           \* per session: the submitted form [name, title, file]
    path,           \* per session: <<year, semester, grade, section>>
    res,            \* per session: one record per folder level looked up
    fileId,         \* per session: id of the file this submission created
    calls,          \* per session: the external calls made, in order
    shown           \* per session: the messages rendered by this run

vars == <<config, folders, files, submissions, started, ord, pc, form, path, res,
          fileId, calls, shown>>

\* The tables this program only reads. The year of the second configuration
\* is also the name of a section.
Configs ==
    { [current_year |-> "B", current_semester |-> "S"],
      [current_year |-> "A", current_semester |-> "S"] }
Classes == { [grade_level |-> "G", section_name |-> "A"] }

\* create_folder_structure(current_year, current_semester, grade, section)
PathOf(cfg, class) ==
    <<cfg.current_year, cfg.current_semester, class.grade_level, class.section_name>>

EmptyForm == [name |-> <<>>, title |-> <<>>, file |-> NoFile]
GoodForm ==
    [name |-> <<"a", "a", "a", " ", "a", "a", "a">>,
     title |-> <<"a", "a", " ", "a", "a">>,
     file |-> MaxFileSize]
Forms ==
    { GoodForm,
      EmptyForm,
      [GoodForm EXCEPT !.file = MaxFileSize + 1] }

Init ==
    /\ config \in Configs
    /\ folders = {}
    /\ files = {}
    /\ submissions = <<>>
    /\ started = 0
    /\ ord = [s \in Sessions |-> 0]
    /\ pc = [s \in Sessions |-> "Idle"]
    /\ form = [s \in Sessions |-> EmptyForm]
    /\ path = [s \in Sessions |-> <<>>]
    /\ res = [s \in Sessions |-> <<>>]
    /\ fileId = [s \in Sessions |-> NoId]
    /\ calls = [s \in Sessions |-> <<>>]
    /\ shown = [s \in Sessions |-> <<>>]

\* --------------------------------------------------------- storage provider
\* files().list(q=...): name and mimeType match and, only when a parent id is
\* given, the parent matches too.
Query(name, parent) ==
    {f \in folders : f.name = name /\ (parent # NoParent => f.parent = parent)}

\* pageSize=1: a page of at most one result; the provider's order is
\* unspecified, so any one match can be the one returned.
ListPages(m) == IF m = {} THEN {<<>>} ELSE {<<f>> : f \in m}

\* The provider assigns every object it creates a fresh opaque id: here the
\* ordinal of the creating submission and the step (1..4 a folder level, 5 the
\* file), which no two objects share.
FreshId(n, k) == <<n, k>>
FileStep == PathDepth + 1

\* Variant: a create that returns an existing folder of that name and parent.
CreateIfAbsent(id, name, parent) ==
    IF Query(name, parent) # {}
    THEN CHOOSE f \in Query(name, parent) : TRUE
    ELSE [id |-> id, name |-> name, parent |-> parent]
\* files().create(body={name, mimeType, parents?}) for a folder.
NewFolder(id, name, parent) == [id |-> id, name |-> name, parent |-> parent]

\* webViewLink of a file
Link(id) == <<"view", id>>

\* ------------------------------------------------------------ script steps
Idle(s) == pc[s] \in {"Idle", "Rejected", "Succeeded", "Failed"}

\* Faulty variant: the upload starts whatever validation found.
ProceedsAlways(errs) == TRUE
\* `if errors:` of main()
Proceeds(errs) == errs = <<>>

\* Faulty variant: a failed step is tried again.
AfterFailureRetry(step) == step
\* What an exception of an external call leads to: every wrapper re-raises,
\* main()'s handler renders the error and the run ends.
AfterFailure(step) == "Failed"

\* Faulty variant: the handler deletes the file of the failed run.
OnErrorRollback(fs, id) == {f \in fs : f.id # id}
\* The except block of main(): nothing in storage is undone.
OnError(fs, id) == fs

Call(op, lvl, ok) == [op |-> op, lvl |-> lvl, ok |-> ok]

Fail(s, call) ==
    /\ pc' = [pc EXCEPT ![s] = AfterFailure(pc[s])]
    /\ calls' = [calls EXCEPT ![s] = Append(@, call)]
    /\ shown' = [shown EXCEPT ![s] = <<"error", "warning">>]
    /\ files' = OnError(files, fileId[s])
    /\ UNCHANGED <<config, folders, submissions, started, ord, form, path, res,
                   fileId>>

\* The form is submitted: validation, then either the error list or the start
\* of the upload. Sessions are numbered in the order of their first submission.
SubmitForm(s, f, class) ==
    /\ Idle(s)
    /\ \A t \in Sessions : t < s => ord[t] > 0
    /\ started < MaxSubmissions
    /\ started' = started + 1
    /\ form' = [form EXCEPT ![s] = f]
    /\ path' = [path EXCEPT ![s] = PathOf(config, class)]
    /\ res' = [res EXCEPT ![s] = <<>>]
    /\ fileId' = [fileId EXCEPT ![s] = NoId]
    /\ calls' = [calls EXCEPT ![s] = <<>>]
    /\ ord' = [ord EXCEPT ![s] = started + 1]
    /\ IF Proceeds(Validate(f))
       THEN /\ pc' = [pc EXCEPT ![s] = "Search"]
            /\ shown' = [shown EXCEPT ![s] = <<>>]
       ELSE /\ pc' = [pc EXCEPT ![s] = "Rejected"]
            /\ shown' = [shown EXCEPT ![s] = Validate(f)]
    /\ UNCHANGED <<config, folders, files, submissions>>

Submit(s) == \E f \in Forms, class \in Classes : SubmitForm(s, f, class)

\* Faulty variant: an off-by-one in the test of the result page.
FilesNonEmptyOffByOne(page) == Len(page) > 1
\* `if files:` of find_or_create_folder
FilesNonEmpty(page) == Len(page) > 0

\* A level of the path is done: the next lookup, or the upload.
Advance(s, newRes) ==
    /\ res' = [res EXCEPT ![s] = newRes]
    /\ pc' = [pc EXCEPT ![s] = IF Len(newRes) = PathDepth THEN "Upload" ELSE "Search"]

ParentOf(s, k) == IF k = 1 THEN NoParent ELSE res[s][k - 1].id

\* find_or_create_folder, the files().list call.
Search(s) ==
    /\ pc[s] = "Search"
    /\ LET k == Len(res[s]) + 1
           m == Query(path[s][k], ParentOf(s, k))
           seen == {f.id : f \in m}
       IN \/ Fail(s, Call("list", k, FALSE))
          \/ \E page \in ListPages(m) :
                /\ calls' = [calls EXCEPT ![s] = Append(@, Call("list", k, TRUE))]
                /\ IF FilesNonEmpty(page)
                   THEN Advance(s, Append(res[s],
                            [matches |-> seen, id |-> page[1].id, created |-> FALSE]))
                   ELSE /\ pc' = [pc EXCEPT ![s] = "Create"]
                        /\ res' = [res EXCEPT ![s] = Append(@,
                               [matches |-> seen, id |-> NoId, created |-> FALSE])]
                /\ UNCHANGED <<config, folders, files, submissions, started, ord, form,
                               path, fileId, shown>>

\* find_or_create_folder, the files().create call.
Create(s) ==
    /\ pc[s] = "Create"
    /\ LET k == Len(res[s])
           new == NewFolder(FreshId(ord[s], k), path[s][k], ParentOf(s, k))
       IN \/ Fail(s, Call("create", k, FALSE))
          \/ /\ folders' = folders \cup {new}
             /\ calls' = [calls EXCEPT ![s] = Append(@, Call("create", k, TRUE))]
             /\ Advance(s, [res[s] EXCEPT ![k].id = new.id, ![k].created = TRUE])
             /\ UNCHANGED <<config, files, submissions, started, ord, form, path,
                            fileId, shown>>

\* upload_file_to_drive up to the files().create call. Building the media
\* object is local and may raise before any request is sent.
Upload(s) ==
    /\ pc[s] = "Upload"
    /\ \/ /\ pc' = [pc EXCEPT ![s] = AfterFailure(pc[s])]
          /\ shown' = [shown EXCEPT ![s] = <<"error", "warning">>]
          /\ UNCHANGED <<config, folders, files, submissions, started, ord, form,
                         path, res, fileId, calls>>
       \/ Fail(s, Call("file_create", 0, FALSE))
       \/ /\ files' = files \cup
                 {[id |-> FreshId(ord[s], FileStep),
                   name |-> FileName(form[s].name, form[s].title),
                   parent |-> res[s][PathDepth].id,
                   public |-> FALSE]}
          /\ fileId' = [fileId EXCEPT ![s] = FreshId(ord[s], FileStep)]
          /\ calls' = [calls EXCEPT ![s] = Append(@, Call("file_create", 0, TRUE))]
          /\ pc' = [pc EXCEPT ![s] = "Permission"]
          /\ UNCHANGED <<config, folders, submissions, started, ord, form, path, res,
                         shown>>

\* upload_file_to_drive, the permissions().create call.
Permission(s) ==
    /\ pc[s] = "Permission"
    /\ \/ Fail(s, Call("permission", 0, FALSE))
       \/ /\ files' = {IF f.id = fileId[s] THEN [f EXCEPT !.public = TRUE] ELSE f :
                          f \in files}
          /\ calls' = [calls EXCEPT ![s] = Append(@, Call("permission", 0, TRUE))]
          /\ pc' = [pc EXCEPT ![s] = "Persist"]
          /\ UNCHANGED <<config, folders, submissions, started, ord, form, path, res,
                         fileId, shown>>

\* submission_data of main(); the timestamp is the reading of the clock.
Row(s) ==
    [student_name |-> Strip(form[s].name),
     project_title |-> Strip(form[s].title),
     file_url |-> Link(fileId[s]),
     grade_level |-> path[s][3],
     section |-> path[s][4],
     year |-> path[s][1],
     semester |-> path[s][2],
     timestamp |-> started]

\* Faulty variant: the exception of the insert is swallowed.
SaveSubmissionSwallows(ok) == FALSE
\* save_submission: an exception of the insert is re-raised.
SaveSubmissionRaises(ok) == ~ok

\* save_submission and, when it returns, the success messages.
Persist(s) ==
    /\ pc[s] = "Persist"
    /\ \E ok \in BOOLEAN :
          /\ submissions' = IF ok THEN Append(submissions, Row(s)) ELSE submissions
          /\ IF SaveSubmissionRaises(ok)
             THEN Fail(s, Call("insert", 0, FALSE))
             ELSE /\ calls' = [calls EXCEPT ![s] = Append(@, Call("insert", 0, ok))]
                  /\ pc' = [pc EXCEPT ![s] = "Succeeded"]
                  /\ shown' = [shown EXCEPT ![s] = <<"success", "info", "link">>]
                  /\ UNCHANGED <<config, folders, files, started, ord, form, path,
                                 res, fileId>>

Step(s) ==
    \/ Submit(s)
    \/ Search(s)
    \/ Create(s)
    \/ Upload(s)
    \/ Permission(s)
    \/ Persist(s)

\* Sessions of different users interleave at every external call.
Next == \E s \in Sessions : Step(s)

Spec == Init /\ [][Next]_vars

\* One submission at a time: a session starts only when no other is in flight.
NextSeq == \E s \in Sessions : Step(s) /\ \A t \in Sessions \ {s} : Idle(t)

SpecSeq == Init /\ [][NextSeq]_vars

\* ------------------------------------------------------- validation alone
Texts(n) == UNION {[1..k -> Chars] : k \in 0..n}
FileInputs == {NoFile, 0, MaxFileSize, MaxFileSize + 1}
FormOf(n, t, u) == [name |-> n, title |-> t, file |-> u]

InitV ==
    /\ config = [current_year |-> "B", current_semester |-> "S"]
    /\ folders = {}
    /\ files = {}
    /\ submissions = <<>>
    /\ started = 0
    /\ ord = [s \in Sessions |-> 0]
    /\ pc = [s \in Sessions |-> "Idle"]
    /\ \E n \in Texts(MaxNameLen), t \in Texts(MaxTitleLen), u \in FileInputs :
          form = [s \in Sessions |-> FormOf(n, t, u)]
    /\ path = [s \in Sessions |-> <<>>]
    /\ res = [s \in Sessions |-> <<>>]
    /\ fileId = [s \in Sessions |-> NoId]
    /\ calls = [s \in Sessions |-> <<>>]
    /\ shown = [s \in Sessions |-> <<>>]

\* The form as filled in is submitted.
SubmitFilled(s) ==
    /\ pc[s] = "Idle"
    /\ \E class \in Classes : SubmitForm(s, form[s], class)

NextV == SubmitFilled(1)

SpecV == InitV /\ [][NextV]_vars

\* -------------------------------------------------------------- properties
ToSet(q) == {q[i] : i \in DOMAIN q}
Ink(t) == {i \in DOMAIN t : t[i] \notin Whitespace}
\* Number of non-whitespace characters of a text.
InkCount(t) == Cardinality(Ink(t))
\* Length of a text from its first to its last non-whitespace character.
TrimLen(t) ==
    IF Ink(t) = {} THEN 0
    ELSE (CHOOSE i \in Ink(t) : \A j \in Ink(t) : j <= i)
         - (CHOOSE i \in Ink(t) : \A j \in Ink(t) : i <= j) + 1

\* The rules a form violates, named by their messages: those its name, its
\* title and its file violate.
NameRules(n) == {m \in {ErrName} : TrimLen(n) < MinNameLen}
TitleRules(t) == {m \in {ErrTitle} : TrimLen(t) < MinTitleLen}
FileRules(u) ==
    {m \in {ErrNoFile} : u = NoFile}
    \cup {m \in {ErrSize} : u # NoFile /\ u > MaxFileSize}
ViolatedRules(f) == NameRules(f.name) \cup TitleRules(f.title) \cup FileRules(f.file)

Submitted(s) == ord[s] > 0
LastCall(s) == calls[s][Len(calls[s])]
InsertFailed(s) ==
    calls[s] # <<>> /\ LastCall(s).op = "insert" /\ ~LastCall(s).ok
LevelDone(s, k) == k \in 1..Len(res[s]) /\ res[s][k].id # NoId
Done(s) == LevelDone(s, PathDepth)
CreatedBy(s) == {res[s][k].id : k \in {j \in 1..Len(res[s]) : res[s][j].created}}

\* C1: a submission that violates a validation rule makes no external call:
\* the step that handles it leaves the folders, the files and the submissions
\* table as they were, the run ends with only the validation messages shown,
\* and no call is ever made for it.
C1_InvalidTouchesNothing ==
    /\ [](\A s \in Sessions :
            (Submitted(s) /\ ViolatedRules(form[s]) # {}) =>
                /\ pc[s] = "Rejected"
                /\ calls[s] = <<>>
                /\ res[s] = <<>>
                /\ fileId[s] = NoId
                /\ shown[s] # <<>>
                /\ ToSet(shown[s]) \subseteq {ErrName, ErrTitle, ErrNoFile, ErrSize})
    /\ [][\A s \in Sessions :
            (ord'[s] # ord[s] /\ ViolatedRules(form'[s]) # {}) =>
                /\ folders' = folders
                /\ files' = files
                /\ submissions' = submissions]_vars

C1_Witness ==
    \E s \in Sessions :
        /\ pc[s] = "Rejected"
        /\ folders # {}
        /\ files # {}
        /\ submissions # <<>>

RowsOf(s) == {i \in DOMAIN submissions : submissions[i].file_url = Link(fileId[s])}
AllCallsOk(s) ==
    /\ \A i \in DOMAIN calls[s] : calls[s][i].ok
    /\ \E i \in DOMAIN calls[s] : calls[s][i].op = "insert"

\* C2: a submission whose calls all succeed ends Succeeded with exactly one
\* row, whose file_url is the link of the file it uploaded; a submission that
\* is not Succeeded has no row; and the table only ever grows by one row
\* appended by the step that takes a submission to Succeeded.
C2_OneRowPerSuccess ==
    /\ [](\A s \in Sessions :
            /\ (Submitted(s) /\ AllCallsOk(s)) => pc[s] = "Succeeded"
            /\ pc[s] = "Succeeded" =>
                  /\ fileId[s] # NoId
                  /\ \E f \in files : f.id = fileId[s]
                  /\ Cardinality(RowsOf(s)) = 1
            /\ pc[s] # "Succeeded" => RowsOf(s) = {})
    /\ [][submissions' # submissions =>
            \E s \in Sessions :
                /\ pc[s] = "Persist"
                /\ pc'[s] = "Succeeded"
                /\ Len(submissions') = Len(submissions) + 1
                /\ SubSeq(submissions', 1, Len(submissions)) = submissions
                /\ submissions'[Len(submissions')].file_url = Link(fileId[s])]_vars

C2_Witness ==
    \E s \in Sessions, t \in Sessions :
        /\ pc[s] = "Succeeded"
        /\ pc[t] = "Failed"
        /\ fileId[t] # NoId
        /\ Len(submissions) = 1

\* C3: when the insert fails after the upload, the uploaded file and the
\* folders this submission created are still in storage, the failure is shown
\* and neither the success message nor the link is.
C3_NoRollbackOnInsertFailure ==
    \A s \in Sessions :
        InsertFailed(s) =>
            /\ pc[s] = "Failed"
            /\ \E f \in files : f.id = fileId[s] /\ f.parent = res[s][PathDepth].id
            /\ \A id \in CreatedBy(s) : \E d \in folders : d.id = id
            /\ "error" \in ToSet(shown[s])
            /\ "success" \notin ToSet(shown[s])
            /\ "link" \notin ToSet(shown[s])
            /\ RowsOf(s) = {}

C3_Witness ==
    \E s \in Sessions : InsertFailed(s) /\ Cardinality(CreatedBy(s)) = PathDepth

\* The folder a finished level of a lookup refers to.
FolderOf(s, k) == [id |-> res[s][k].id, name |-> path[s][k], parent |-> ParentOf(s, k)]

\* C4 (as claimed): of two submissions that resolve the same path one after
\* the other, the later one gets the same section folder id and creates no
\* folder.
C4_SecondCallIdempotent ==
    \A s \in Sessions, t \in Sessions :
        (Done(s) /\ Done(t) /\ path[s] = path[t] /\ ord[t] < ord[s]) =>
            /\ res[s][PathDepth].id = res[t][PathDepth].id
            /\ CreatedBy(s) = {}

\* C5 (as claimed): an existing folder is returned only when exactly one
\* folder matches; with no match or with two or more a new folder is created.
C5_ExistingOnlyIfExactlyOne ==
    \A s \in Sessions : \A k \in 1..Len(res[s]) :
        LevelDone(s, k) =>
            (res[s][k].created <=> Cardinality(res[s][k].matches) # 1)

\* C5 (amended): find_or_create_folder returns the id of one of the matching
\* folders whenever at least one folder matches, also when several do, and
\* creates a new folder under the given parent (the root if none) only when
\* no folder matches.
C5_ExistingIfAnyMatch ==
    \A s \in Sessions : \A k \in 1..Len(res[s]) :
        /\ LevelDone(s, k) =>
              /\ res[s][k].matches # {} =>
                    /\ ~res[s][k].created
                    /\ res[s][k].id \in res[s][k].matches
              /\ res[s][k].matches = {} =>
                    /\ res[s][k].created
                    /\ FolderOf(s, k) \in folders
        /\ ~LevelDone(s, k) =>
              /\ res[s][k].matches = {}
              /\ k = Len(res[s])
              /\ pc[s] \in {"Create", "Failed"}

C5_Witness ==
    \E s \in Sessions : \E k \in 1..Len(res[s]) :
        /\ LevelDone(s, k)
        /\ Cardinality(res[s][k].matches) >= 2
        /\ ~res[s][k].created

\* Position of a call in the fixed order of the workflow's steps.
StepOf(c) ==
    CASE c.op \in {"list", "create"} -> c.lvl
      [] c.op = "file_create" -> PathDepth + 1
      [] c.op = "permission" -> PathDepth + 2
      [] c.op = "insert" -> PathDepth + 3
LastStep == PathDepth + 3

\* C8: the calls of one submission follow the order year, semester, grade,
\* section, file create, permission grant, insert, without skipping a step;
\* no call is made twice; a failed call is the last call of the submission and
\* leaves it Failed; only a submission whose seven steps all ran is Succeeded.
C8_FixedOrderFailFast ==
    \A s \in Sessions :
        LET cs == calls[s] IN
        /\ cs # <<>> => StepOf(cs[1]) = 1 /\ cs[1].op = "list"
        /\ \A i \in 1..(Len(cs) - 1) :
              /\ cs[i].ok
              /\ \/ /\ StepOf(cs[i + 1]) = StepOf(cs[i])
                    /\ cs[i].op = "list"
                    /\ cs[i + 1].op = "create"
                 \/ /\ StepOf(cs[i + 1]) = StepOf(cs[i]) + 1
                    /\ cs[i + 1].op # "create"
        /\ Cardinality({<<cs[i].op, cs[i].lvl>> : i \in DOMAIN cs}) = Len(cs)
        /\ (\E i \in DOMAIN cs : ~cs[i].ok) => pc[s] = "Failed"
        /\ pc[s] = "Succeeded" =>
              /\ \A i \in DOMAIN cs : cs[i].ok
              /\ {StepOf(cs[i]) : i \in DOMAIN cs} = 1..LastStep

C8_Witness ==
    \E s \in Sessions, t \in Sessions :
        /\ pc[s] = "Failed"
        /\ Len(calls[s]) > PathDepth
        /\ LastCall(s).op = "permission"
        /\ pc[t] = "Succeeded"

\* Two sessions that both found no folder for the same name under the same
\* parent and both went on to create one.
BothCreated(s, t, k) ==
    /\ s # t
    /\ LevelDone(s, k) /\ LevelDone(t, k)
    /\ res[s][k].created /\ res[t][k].created
    /\ path[s][k] = path[t][k]
    /\ ParentOf(s, k) = ParentOf(t, k)

\* C9: when two concurrent submissions both search for the same folder before
\* either creates it, each creates its own: storage then holds two folders of
\* that name under that parent and the two callers hold different ids.
C9_RaceCreatesDuplicates ==
    \A s \in Sessions, t \in Sessions : \A k \in 1..PathDepth :
        BothCreated(s, t, k) =>
            /\ res[s][k].id # res[t][k].id
            /\ FolderOf(s, k) \in folders
            /\ FolderOf(t, k) \in folders
            /\ Cardinality(Query(path[s][k], ParentOf(s, k))) >= 2

C9_Witness ==
    \E s \in Sessions, t \in Sessions :
        /\ BothCreated(s, t, 1)
        /\ path[s] = path[t]
        /\ Done(s) /\ Done(t)
        /\ res[s][PathDepth].id # res[t][PathDepth].id

\* The names on the way from the storage root down to a folder.
RECURSIVE NamesTo(_)
NamesTo(id) ==
    IF id = NoParent \/ ~\E f \in folders : f.id = id
    THEN <<>>
    ELSE LET f == CHOOSE d \in folders : d.id = id
         IN Append(NamesTo(f.parent), f.name)

\* C10 (as claimed): the folder a finished create_folder_structure returns is
\* named section, inside grade, inside semester, inside a folder named year
\* that sits directly under the root.
C10_ReturnedFolderOnPath ==
    \A s \in Sessions : Done(s) => NamesTo(res[s][PathDepth].id) = path[s]

\* ------------------------------------------------ properties of validation
Messages(s) == IF pc[s] = "Rejected" THEN shown[s] ELSE <<>>

\* The largest number of rules any form violates at once: the three fields
\* of a form vary independently and violate different rules.
Largest(S) == CHOOSE n \in S : \A m \in S : m <= n
MostViolations ==
    Largest({Cardinality(NameRules(n)) : n \in Texts(MaxNameLen)})
    + Largest({Cardinality(TitleRules(t)) : t \in Texts(MaxTitleLen)})
    + Largest({Cardinality(FileRules(u)) : u \in FileInputs})

\* C6 (as claimed): a submission that violates as many rules as a form can
\* violates all four and is shown four distinct messages.
C6_FourMessages ==
    \A s \in Sessions :
        (Submitted(s) /\ Cardinality(ViolatedRules(form[s])) = MostViolations) =>
            /\ Len(Messages(s)) = 4
            /\ Cardinality(ToSet(Messages(s))) = 4

\* C6 (amended): the rules "a file was chosen" and "the file is at most
\* 10 MiB" cannot both be violated, so at most three rules are violated at
\* once; validation shows one distinct message for every violated rule, in the
\* order name, title, file, not just the first.
C6_OneMessagePerViolatedRule ==
    \A s \in Sessions :
        Submitted(s) =>
            /\ ToSet(Messages(s)) = ViolatedRules(form[s])
            /\ Len(Messages(s)) = Cardinality(ViolatedRules(form[s]))
            /\ Len(Messages(s)) <= 3
            /\ ~(ErrNoFile \in ToSet(Messages(s)) /\ ErrSize \in ToSet(Messages(s)))
            /\ Messages(s) =
                  SelectSeq(<<ErrName, ErrTitle, ErrNoFile, ErrSize>>,
                            LAMBDA m : m \in ViolatedRules(form[s]))

C6_Witness ==
    \E s \in Sessions :
        /\ pc[s] = "Rejected"
        /\ Messages(s) = <<ErrName, ErrTitle, ErrSize>>

\* C7 (as claimed): the name error is shown when the name has 5 or fewer
\* non-whitespace characters and is not shown when it has 6 or more.
C7_NameCountsNonWhitespace ==
    \A s \in Sessions :
        Submitted(s) =>
            (ErrName \in ToSet(Messages(s)) <=> InkCount(form[s].name) < MinNameLen)

\* C7 (amended): the name rule counts the characters left after leading and
\* trailing whitespace is removed, interior spaces included: the name error is
\* shown exactly when fewer than 6 such characters remain.
C7_NameCountsTrimmedLength ==
    \A s \in Sessions :
        Submitted(s) =>
            (ErrName \in ToSet(Messages(s)) <=> TrimLen(form[s].name) < MinNameLen)

C7_Witness ==
    \E s \in Sessions :
        /\ Submitted(s)
        /\ InkCount(form[s].name) < MinNameLen
        /\ TrimLen(form[s].name) = MinNameLen
        /\ ErrName \notin ToSet(Messages(s))

====
